---------------------------- MODULE Spec2Model ----------------------------
(***************************************************************************)
(* A model of the perfume price-comparison program:                        *)
(*   src/matching_engine.py  PerfumeMatchingEngine (classification,        *)
(*                           fingerprint, product loading, strict match)   *)
(*   src/app.py              the Streamlit session around it               *)
(*                                                                         *)
(* Text is modelled at character level.  A string is a sequence of         *)
(* characters; an ASCII character is a one-character TLA+ string, an       *)
(* Arabic character is written by its Unicode name ("ar-ain", ...).        *)
(* Prices are counted in thousandths of the currency unit, scores in       *)
(* tenths of a percent, so that round(diff, 2) and round(score) are real   *)
(* conversions.                                                            *)
(***************************************************************************)
EXTENDS Integers, Sequences, FiniteSets, TLC

VARIABLES
    arg,        \* engine harness: the arguments of the method call chosen at start
    ret,        \* engine harness: what the called method returned ("none" before the call)
    up_my,      \* widget state of st.file_uploader(key="up_my")
    up_comp,    \* widget state of st.file_uploader(key="up_comp")
    my_file,    \* st.session_state.my_file
    comp_files, \* st.session_state.comp_files
    master_df,  \* st.session_state.master_df
    run         \* what the last script run did (message shown, files read, matches)

vars == <<arg, ret, up_my, up_comp, my_file, comp_files, master_df, run>>

engineVars == <<arg, ret>>
sessionVars == <<up_my, up_comp, my_file, comp_files, master_df, run>>

None == << >>

-----------------------------------------------------------------------------
(* Characters and strings                                                  *)

Chars(s) == [i \in 1..Len(s) |-> SubSeq(s, i, i)]

UpperLetters == Chars("ABCDEFGHIJKLMNOPQRSTUVWXYZ")
LowerLetters == Chars("abcdefghijklmnopqrstuvwxyz")
AsciiDigits  == Chars("0123456789")

\* Arabic letters used by the vocabularies, in code point order
\* (U+0622 .. U+064A), and the Arabic-Indic digits zero and one.
ArabicLetters ==
    << "ar-alef-madda", "ar-alef-hamza-above", "ar-alef-hamza-below",
       "ar-alef", "ar-teh-marbuta", "ar-teh", "ar-jeem", "ar-reh",
       "ar-seen", "ar-sheen", "ar-sad", "ar-tah", "ar-ain", "ar-qaf",
       "ar-lam", "ar-meem", "ar-noon", "ar-heh", "ar-waw", "ar-yeh" >>
ArabicDigits == << "ar-zero", "ar-one" >>

\* Every modelled character, in code point order (what sorted() compares).
Alphabet ==
    << " ", "-", "." >> \o AsciiDigits \o UpperLetters \o << "_" >>
    \o LowerLetters \o ArabicLetters \o ArabicDigits

Range(s) == { s[i] : i \in 1..Len(s) }

IndexOf(seq, x) == CHOOSE i \in 1..Len(seq) : seq[i] = x

CharOrd[c \in Range(Alphabet)] == IndexOf(Alphabet, c)

IsDigit(c) == c \in Range(AsciiDigits) \cup Range(ArabicDigits)
IsSpace(c) == c = " "
IsWordChar(c) ==
    \/ c \in Range(UpperLetters) \cup Range(LowerLetters)
    \/ c \in Range(ArabicLetters)
    \/ IsDigit(c)
    \/ c = "_"

DigitVal(c) ==
    IF c \in Range(AsciiDigits) THEN IndexOf(AsciiDigits, c) - 1
    ELSE IndexOf(ArabicDigits, c) - 1

\* str.lower(), character by character
LowerChar(c) ==
    IF c \in Range(UpperLetters) THEN LowerLetters[IndexOf(UpperLetters, c)]
    ELSE c
StrLower(s) == [i \in 1..Len(s) |-> LowerChar(s[i])]

\* w occurs in s at position i
MatchAt(s, w, i) ==
    /\ i + Len(w) - 1 <= Len(s)
    /\ \A j \in 1..Len(w) : s[i + j - 1] = w[j]

\* the Python test  w in s
Contains(s, w) == \E i \in 1..(Len(s) - Len(w) + 1) : MatchAt(s, w, i)

\* any(k in low for k in vocabulary)
AnyIn(low, vocabulary) ==
    \E n \in 1..Len(vocabulary) : Contains(low, vocabulary[n])

-----------------------------------------------------------------------------
(* PerfumeMatchingEngine: the fixed vocabularies                           *)

REJECTED ==
    << << "ar-ain", "ar-yeh", "ar-noon", "ar-teh-marbuta" >>,
       Chars("sample"),
       << "ar-teh", "ar-qaf", "ar-seen", "ar-yeh", "ar-meem" >>,
       Chars("decant") >>

TESTER ==
    << << "ar-teh", "ar-seen", "ar-teh", "ar-reh" >>,
       Chars("tester"),
       Chars("testeur") >>

HAIR_MIST ==
    << << "ar-ain", "ar-tah", "ar-reh", " ", "ar-sheen", "ar-ain", "ar-reh" >>,
       Chars("hair mist") >>

BODY_MIST ==
    << Chars("body mist"),
       Chars("body spray"),
       << "ar-meem", "ar-yeh", "ar-seen", "ar-teh" >> >>

SET ==
    << << "ar-tah", "ar-qaf", "ar-meem" >>,
       Chars("set"),
       << "ar-meem", "ar-jeem", "ar-meem", "ar-waw", "ar-ain", "ar-teh-marbuta" >>,
       Chars("gift set") >>

NOISE ==
    << << "ar-ain", "ar-tah", "ar-reh" >>,
       Chars("perfume"), Chars("parfum"), Chars("ml"),
       << "ar-meem", "ar-lam" >>,
       Chars("edp"), Chars("edt"), Chars("eau"), Chars("de"),
       Chars("toilette"), Chars("spray"), Chars("intense"),
       Chars("original"),
       << "ar-alef", "ar-sad", "ar-lam", "ar-yeh" >> >>

\* the two unit spellings of the size pattern  (\d+)\s*(?:ml|<meem lam>)
UnitMarkers == { Chars("ml"), << "ar-meem", "ar-lam" >> }

-----------------------------------------------------------------------------
(* _classify                                                               *)

\* last index of the maximal digit run that starts at i
DigitRunEnd(s, i) ==
    CHOOSE e \in i..Len(s) :
        /\ \A j \in i..e : IsDigit(s[j])
        /\ (e = Len(s) \/ ~IsDigit(s[e + 1]))

\* first index at or after j that holds no whitespace (Len(s)+1 at the end)
SkipSpaces(s, j) ==
    CHOOSE k \in j..(Len(s) + 1) :
        /\ \A x \in j..(k - 1) : IsSpace(s[x])
        /\ (k = Len(s) + 1 \/ ~IsSpace(s[k]))

\* the pattern matches with its first character at i: greedy \d+, then \s*,
\* then a unit (giving digits back never helps: a digit would face the unit)
SizeMatchAt(s, i) ==
    /\ IsDigit(s[i])
    /\ \E u \in UnitMarkers : MatchAt(s, u, SkipSpaces(s, DigitRunEnd(s, i) + 1))

\* int(m.group(1))
RECURSIVE IntOf(_)
IntOf(digits) ==
    IF digits = << >> THEN 0
    ELSE 10 * IntOf(SubSeq(digits, 1, Len(digits) - 1))
         + DigitVal(digits[Len(digits)])

\* re.search: the leftmost match; 0 when there is none
ExtractSize(low) ==
    IF \E i \in 1..Len(low) : SizeMatchAt(low, i)
    THEN LET i == CHOOSE a \in 1..Len(low) :
                      /\ SizeMatchAt(low, a)
                      /\ \A b \in 1..(a - 1) : ~SizeMatchAt(low, b)
         IN  IntOf(SubSeq(low, i, DigitRunEnd(low, i)))
    ELSE 0

\* 1) the veto
IsRejected(low) == AnyIn(low, REJECTED)

\* Mutation of TypeOf: the Tester vocabulary is tried before the Set one.
TypeOfTesterFirst(low) ==
    IF AnyIn(low, TESTER) THEN "Tester"
    ELSE IF AnyIn(low, SET) THEN "Set"
    ELSE IF AnyIn(low, HAIR_MIST) THEN "Hair Mist"
    ELSE IF AnyIn(low, BODY_MIST) THEN "Body Mist"
    ELSE "Retail"

\* 2) the type, first match wins
TypeOf(low) ==
    IF AnyIn(low, SET) THEN "Set"
    ELSE IF AnyIn(low, HAIR_MIST) THEN "Hair Mist"
    ELSE IF AnyIn(low, BODY_MIST) THEN "Body Mist"
    ELSE IF AnyIn(low, TESTER) THEN "Tester"
    ELSE "Retail"

\* Mutation of _classify: the veto is applied only when no type vocabulary matches.
ClassifyVetoLast(name) ==
    LET low == StrLower(name)
    IN  IF TypeOf(low) = "Retail" /\ IsRejected(low)
        THEN [ptype |-> "Rejected", size |-> 0, rejected |-> TRUE]
        ELSE [ptype |-> TypeOf(low), size |-> ExtractSize(low), rejected |-> FALSE]

\* _classify(name) -> (ptype, size, rejected)
_classify(name) ==
    LET low == StrLower(name)
    IN  IF IsRejected(low)
        THEN [ptype |-> "Rejected", size |-> 0, rejected |-> TRUE]
        ELSE [ptype |-> TypeOf(low), size |-> ExtractSize(low), rejected |-> FALSE]

-----------------------------------------------------------------------------
(* _fingerprint                                                            *)

AlefVariants == { "ar-alef-madda", "ar-alef-hamza-above", "ar-alef-hamza-below", "ar-alef" }

\* re.sub("[alef variants]", alef), then re.sub(teh marbuta, heh)
NormalizeArabic(s) ==
    [i \in 1..Len(s) |->
        IF s[i] \in AlefVariants THEN "ar-alef"
        ELSE IF s[i] = "ar-teh-marbuta" THEN "ar-heh"
        ELSE s[i]]

\* str.replace(w, ""): the occurrences of w found left to right, without
\* overlap, are dropped; the result is not scanned again
RECURSIVE RemoveFrom(_, _, _)
RemoveFrom(s, w, i) ==
    IF i > Len(s) THEN << >>
    ELSE IF MatchAt(s, w, i) THEN RemoveFrom(s, w, i + Len(w))
    ELSE << s[i] >> \o RemoveFrom(s, w, i + 1)

StrRemove(s, w) == IF Contains(s, w) THEN RemoveFrom(s, w, 1) ELSE s

\* for w in NOISE: txt = txt.replace(w, "")   (words n .. end of the list)
RECURSIVE RemoveNoise(_, _)
RemoveNoise(s, n) ==
    IF n > Len(NOISE) THEN s
    ELSE RemoveNoise(StrRemove(s, NOISE[n]), n + 1)

IsWordOrSpace(c) == IsWordChar(c) \/ IsSpace(c)
NotDigit(c) == ~IsDigit(c)

\* re.sub(r"[^\w\s]", "", txt)
StripPunctuation(s) == SelectSeq(s, IsWordOrSpace)
\* re.sub(r"\d+", "", txt)
StripDigits(s) == SelectSeq(s, NotDigit)

\* txt.split(): the maximal runs of non-whitespace, in order
RECURSIVE SplitFrom(_, _)
SplitFrom(s, i) ==
    IF i > Len(s) THEN << >>
    ELSE IF IsSpace(s[i]) THEN SplitFrom(s, i + 1)
    ELSE LET e == CHOOSE k \in i..Len(s) :
                      /\ \A x \in i..k : ~IsSpace(s[x])
                      /\ (k = Len(s) \/ IsSpace(s[k + 1]))
         IN  << SubSeq(s, i, e) >> \o SplitFrom(s, e + 1)

StrSplit(s) == SplitFrom(s, 1)

\* string comparison by code points:  a < b
StrLess(a, b) ==
    \E k \in 1..(Len(b)) :
        /\ k <= Len(a) + 1
        /\ \A j \in 1..(k - 1) : a[j] = b[j]
        /\ (k = Len(a) + 1 \/ CharOrd[a[k]] < CharOrd[b[k]])

\* sorted(tokens)
RECURSIVE Sorted(_)
Sorted(tokens) ==
    IF tokens = << >> THEN << >>
    ELSE LET m == CHOOSE i \in 1..Len(tokens) :
                      \A j \in 1..Len(tokens) : ~StrLess(tokens[j], tokens[i])
             rest == [j \in 1..(Len(tokens) - 1) |->
                          IF j < m THEN tokens[j] ELSE tokens[j + 1]]
         IN  << tokens[m] >> \o Sorted(rest)

\* " ".join(tokens)
RECURSIVE Join(_)
Join(tokens) ==
    IF tokens = << >> THEN << >>
    ELSE IF Len(tokens) = 1 THEN tokens[1]
    ELSE tokens[1] \o << " " >> \o Join(Tail(tokens))

\* _fingerprint(name); the trailing strip() has nothing left to strip
_fingerprint(name) ==
    LET txt1 == StrLower(name)
        txt2 == NormalizeArabic(txt1)
        txt3 == RemoveNoise(txt2, 1)
        txt4 == StripPunctuation(txt3)
        txt5 == StripDigits(txt4)
    IN  Join(Sorted(StrSplit(txt5)))

-----------------------------------------------------------------------------
(* Cells, prices and files                                                 *)

\* A price cell as pandas hands it to float(): a number (in thousandths),
\* NaN (an empty cell, or the text "nan"), or text float() cannot parse.
NumCell(v) == [k |-> "num", v |-> v]
NanCell    == [k |-> "nan", v |-> 0]
TextCell   == [k |-> "text", v |-> 0]

\* A float: NaN, or a number of thousandths.
Num(v) == [nan |-> FALSE, v |-> v]
NaN    == [nan |-> TRUE, v |-> 0]

\* float(row[price_col]): raises ValueError / TypeError on text only
ParseFloat(cell) ==
    IF cell.k = "num" THEN [ok |-> TRUE, val |-> Num(cell.v)]
    ELSE IF cell.k = "nan" THEN [ok |-> TRUE, val |-> NaN]
    ELSE [ok |-> FALSE, val |-> NaN]

\* float arithmetic and comparison: NaN propagates, and compares false
FloatSub(a, b) == IF a.nan \/ b.nan THEN NaN ELSE Num(a.v - b.v)
FloatLt0(d) == ~d.nan /\ d.v < 0
FloatGt0(d) == ~d.nan /\ d.v > 0

\* round(diff, 2): to the nearest hundredth (ten thousandths)
Round2(d) ==
    IF d.nan THEN NaN
    ELSE LET a  == IF d.v < 0 THEN -d.v ELSE d.v
             q  == a \div 10
             r  == a % 10
             up == r > 5 \/ (r = 5 /\ q % 2 = 1)
             m  == 10 * (IF up THEN q + 1 ELSE q)
         IN  Num(IF d.v < 0 THEN -m ELSE m)

\* round(score): a score in tenths to the nearest whole percent, half to even
RoundScore(sc) ==
    LET q  == sc \div 10
        r  == sc % 10
        up == r > 5 \/ (r = 5 /\ q % 2 = 1)
    IN  IF up THEN q + 1 ELSE q

\* A row of a table, reduced to the two cells _load_products reads.
Row(name, cell) == [name |-> Chars(name), price |-> cell]

\* An uploaded file {name, data}: data decodes as `format` to the rows, or
\* to nothing at all (broken = TRUE).
File(name, format, broken, rows) ==
    [name |-> name, format |-> format, broken |-> broken, rows |-> rows]

EndsWith(s, suffix) ==
    /\ Len(s) >= Len(suffix)
    /\ SubSeq(s, Len(s) - Len(suffix) + 1, Len(s)) = suffix

\* _read_file: pd.read_csv for *.csv, pd.read_excel otherwise; either raises
\* on data that is not of its format
_read_file(file_dict) ==
    LET fname  == StrLower(Chars(file_dict.name))
        reader == IF EndsWith(fname, Chars(".csv")) THEN "csv" ELSE "xlsx"
    IN  IF file_dict.broken \/ file_dict.format # reader
        THEN [ok |-> FALSE, df |-> << >>]
        ELSE [ok |-> TRUE, df |-> file_dict.rows]

\* cf["name"].rsplit(".", 1)[0]
CompName(name) ==
    LET dots == { i \in 1..Len(name) : SubSeq(name, i, i) = "." }
    IN  IF dots = {} THEN name
        ELSE LET last == CHOOSE i \in dots : \A j \in dots : j <= i
             IN  SubSeq(name, 1, last - 1)

-----------------------------------------------------------------------------
(* Bounds and inputs                                                       *)

MaxPieces == 3      \* pieces in a generated name
MaxRows == 2        \* rows in a generated table
MaxCompFiles == 2   \* competitor files in one upload

\* the slider of app.py
SliderMin == 50
SliderMax == 100
DefaultMinScore == 75
MinScores == { SliderMin, DefaultMinScore, SliderMax }

\* Sequences over S of length 0..n
SeqUpTo(S, n) == UNION { [1..k -> S] : k \in 0..n }

RECURSIVE Concat(_)
Concat(ss) == IF ss = << >> THEN << >> ELSE Head(ss) \o Concat(Tail(ss))

\* Generated names: up to MaxPieces of these pieces, written one after the other.
Pieces ==
    { Chars("Chanel"), Chars(" "), Chars("100"), Chars("ml"),
      Chars("Tester"), Chars("SET"), Chars("sample"),
      Chars("hair mist"), Chars("body spray"),
      Chars("E.D.P"),
      << "ar-ain", "ar-yeh", "ar-noon", "ar-teh-marbuta" >>,
      << "ar-meem", "ar-lam", "ar-alef-hamza-above" >> }

Names == { Concat(ps) : ps \in SeqUpTo(Pieces, MaxPieces) }

\* Generated tables: up to MaxRows rows of these names and price cells.
PriceCells == { NumCell(100000), NumCell(100004), NumCell(-5000), NanCell, TextCell }
LoadNames == { Chars("Chanel 100ml"), Chars("Bleu"), Chars("Tester SET sample 50ml") }
LoadRows == { [name |-> n, price |-> c] : n \in LoadNames, c \in PriceCells }
Tables == SeqUpTo(LoadRows, MaxRows)

\* Uploaded files for whole analyses.
FileMy ==
    File("my.csv", "csv", FALSE,
         << Row("Chanel 100ml", NumCell(100000)),
            Row("Bleu 100ml", NumCell(100004)),
            Row("Chanel", NumCell(90000)) >>)
FileA ==
    File("comp.A.csv", "csv", FALSE,
         << Row("bleu 100ml", NumCell(100000)),
            Row("CHANEL 100ML", NumCell(120000)),
            Row("Chanel Tester 100ml", NumCell(80000)) >>)
FileB ==
    File("compB.XLSX", "xlsx", FALSE,
         << Row("chanel 100ml", NumCell(100000)),
            Row("Chanel EDP 100 ml", NumCell(80000)),
            Row("Chanel sample 100ml", NumCell(50000)) >>)
FileC ==
    File("compC.csv", "csv", FALSE,
         << Row("Chanel 50ml", NumCell(100000)),
            Row("chanel", NumCell(70000)),
            Row("bleu 100ml", NanCell) >>)
FileD ==
    File("compD.xlsx", "xlsx", FALSE,
         << Row("Chanel Tester 100ml", NumCell(100000)),
            Row("Bleu 100ml", TextCell),
            Row("Sample Bleu 100ml", NumCell(100000)) >>)
FileBad == File("bad.xlsx", "csv", FALSE, << Row("Chanel 100ml", NumCell(100000)) >>)

Files == { FileMy, FileA, FileB, FileC, FileD, FileBad }
\* the files run_full_analysis is called with: as my_file, as comp_files
MerchantFiles == { FileMy, FileA, FileBad }
CompetitorFiles == { FileA, FileB, FileC, FileBad }
\* the files the user of a session uploads, to either uploader
SessionFiles == { FileMy, FileD, FileBad }

\* Every name of the tables above, classified and fingerprinted once.
RowNames == LoadNames \cup UNION { { f.rows[i].name : i \in 1..Len(f.rows) } : f \in Files }
NameInfo == [ n \in RowNames |-> [c |-> _classify(n), fp |-> _fingerprint(n)] ]

-----------------------------------------------------------------------------
(* _load_products                                                          *)

\* the loop body for row i: nothing for a rejected or unpriced row, else one
\* product (row: the source row, kept for the record)
LoadRow(df, i) ==
    LET raw_name == df[i].name
        c        == NameInfo[raw_name].c       \* _classify(raw_name)
        p        == ParseFloat(df[i].price)
    IN  IF c.rejected THEN << >>
        ELSE IF ~p.ok THEN << >>
        ELSE << [ name  |-> raw_name,
                  price |-> p.val,
                  type  |-> c.ptype,
                  size  |-> c.size,
                  fp    |-> NameInfo[raw_name].fp,    \* _fingerprint(raw_name)
                  row   |-> i ] >>

RECURSIVE LoadFrom(_, _)
LoadFrom(df, i) ==
    IF i > Len(df) THEN << >>
    ELSE LoadRow(df, i) \o LoadFrom(df, i + 1)

_load_products(df) == LoadFrom(df, 1)

-----------------------------------------------------------------------------
(* run_full_analysis                                                       *)

\* Mutation of Candidates: the type is not compared.
CandidatesSizeOnly(comp_products, my_p) ==
    LET Same(c) == c.size = my_p.size
    IN  SelectSeq(comp_products, Same)

\* The strict filter: same type and same size.
Candidates(comp_products, my_p) ==
    LET Same(c) == c.type = my_p.type /\ c.size = my_p.size
    IN  SelectSeq(comp_products, Same)

\* process.extractOne(query, choices, scorer=W): the first choice of the
\* highest score, as (choice, score, index).  W is the scorer, a function of
\* the two strings with scores in tenths of a percent.
ExtractOne(query, choices, W) ==
    LET i == CHOOSE a \in 1..Len(choices) :
                 /\ \A b \in 1..Len(choices) : W[query, choices[b]] <= W[query, choices[a]]
                 /\ \A b \in 1..(a - 1) : W[query, choices[b]] < W[query, choices[a]]
    IN  [choice |-> choices[i], score |-> W[query, choices[i]], index |-> i]

\* Mutation of BelowThreshold: a score equal to min_score is discarded too.
BelowThresholdInclusive(score, min_score) == score <= 10 * min_score

\* result[1] < min_score
BelowThreshold(score, min_score) == score < 10 * min_score

\* fps.index(x): the first position of x
ListIndex(fps, x) ==
    CHOOSE i \in 1..Len(fps) : fps[i] = x /\ \A j \in 1..(i - 1) : fps[j] # x

\* the label for a price difference
Decision(diff) ==
    IF FloatLt0(diff) THEN "Losing"
    ELSE IF FloatGt0(diff) THEN "Leading"
    ELSE "Tied"

\* The body of the inner loop for one merchant product and one competitor
\* file: no record, or one.  Record keys, in the source's order:
\*   my_name, ptype, my_price, competitor, comp_product, comp_price,
\*   size_ml, diff, decision, score
\* and, kept beside them for the record of where each came from: mi (merchant
\* row), ci (position of the competitor file), bi (competitor row).
MatchOne(my_p, comp_products, comp_name, ci, min_score, W) ==
    IF my_p.size = 0 THEN << >>
    ELSE
    LET candidates == Candidates(comp_products, my_p)
    IN  IF candidates = << >> THEN << >>
        ELSE
        LET fps    == [i \in 1..Len(candidates) |-> candidates[i].fp]
            result == ExtractOne(my_p.fp, fps, W)
        IN  IF BelowThreshold(result.score, min_score) THEN << >>
            ELSE
            LET best == candidates[ListIndex(fps, result.choice)]
                diff == FloatSub(best.price, my_p.price)
            IN  << [ my_name      |-> my_p.name,
                     ptype        |-> my_p.type,
                     my_price     |-> my_p.price,
                     competitor   |-> comp_name,
                     comp_product |-> best.name,
                     comp_price   |-> best.price,
                     size_ml      |-> my_p.size,
                     diff         |-> Round2(diff),
                     decision     |-> Decision(diff),
                     score        |-> RoundScore(result.score),
                     mi           |-> my_p.row,
                     ci           |-> ci,
                     bi           |-> best.row ] >>

\* Mutation of InnerLoop: the merchant products are visited last to first.
RECURSIVE InnerLoopBackwards(_, _, _, _, _, _, _)
InnerLoopBackwards(my_products, k, comp_products, comp_name, ci, min_score, W) ==
    IF k > Len(my_products) THEN << >>
    ELSE InnerLoopBackwards(my_products, k + 1, comp_products, comp_name, ci, min_score, W)
         \o MatchOne(my_products[k], comp_products, comp_name, ci, min_score, W)

\* for my_p in my_products: ...   (products k .. end)
RECURSIVE InnerLoop(_, _, _, _, _, _, _)
InnerLoop(my_products, k, comp_products, comp_name, ci, min_score, W) ==
    IF k > Len(my_products) THEN << >>
    ELSE MatchOne(my_products[k], comp_products, comp_name, ci, min_score, W)
         \o InnerLoop(my_products, k + 1, comp_products, comp_name, ci, min_score, W)

\* for cf in comp_files: ...   (files ci .. end); a file that cannot be read
\* raises out of the whole call
RECURSIVE OuterLoop(_, _, _, _, _)
OuterLoop(my_products, cfs, ci, min_score, W) ==
    IF ci > Len(cfs)
    THEN [raised |-> FALSE, matches |-> << >>, reads |-> 0]
    ELSE
    LET cf == cfs[ci]
        rd == _read_file(cf)
    IN  IF ~rd.ok THEN [raised |-> TRUE, matches |-> << >>, reads |-> 1]
        ELSE
        LET here == InnerLoop(my_products, 1, _load_products(rd.df),
                              CompName(cf.name), ci, min_score, W)
            rest == OuterLoop(my_products, cfs, ci + 1, min_score, W)
        IN  [ raised  |-> rest.raised,
              matches |-> IF rest.raised THEN << >> ELSE here \o rest.matches,
              reads   |-> 1 + rest.reads ]

\* run_full_analysis(my_file, comp_files, min_score) with the scorer W:
\* the list of matches, or an exception; reads counts the _read_file calls
run_full_analysis(mf, cfs, min_score, W) ==
    LET rd == _read_file(mf)
    IN  IF ~rd.ok THEN [raised |-> TRUE, matches |-> << >>, reads |-> 1]
        ELSE LET r == OuterLoop(_load_products(rd.df), cfs, 1, min_score, W)
             IN  [raised |-> r.raised, matches |-> r.matches, reads |-> 1 + r.reads]

\* build_master_dataframe: the ten columns of every match, rows in the
\* order of the list
build_master_dataframe(matches) ==
    [ i \in 1..Len(matches) |->
        [ my_name      |-> matches[i].my_name,
          ptype        |-> matches[i].ptype,
          my_price     |-> matches[i].my_price,
          competitor   |-> matches[i].competitor,
          comp_product |-> matches[i].comp_product,
          comp_price   |-> matches[i].comp_price,
          size_ml      |-> matches[i].size_ml,
          diff         |-> matches[i].diff,
          decision     |-> matches[i].decision,
          score        |-> matches[i].score ] ]

-----------------------------------------------------------------------------
(* The Streamlit script (app.py): one run of it per user interaction       *)

Some(x) == << x >>

NoRun == [pressed |-> FALSE, msg |-> "none", called |-> FALSE, reads |-> 0,
          matches |-> << >>]

\* Mutation of AfterRun: the table is stored whether or not it has rows.
AfterRunAlwaysStore(r, mdf) ==
    IF r.raised
    THEN [msg |-> "error_exception", called |-> TRUE, reads |-> r.reads,
          matches |-> << >>, master |-> mdf]
    ELSE [msg |-> IF r.matches # << >> THEN "success" ELSE "warning_no_matches",
          called |-> TRUE, reads |-> r.reads, matches |-> r.matches,
          master |-> Some(build_master_dataframe(r.matches))]

\* The try block once run_full_analysis has returned (or raised): r is its
\* outcome, mdf the stored table.
AfterRun(r, mdf) ==
    IF r.raised
    THEN [msg |-> "error_exception", called |-> TRUE, reads |-> r.reads,
          matches |-> << >>, master |-> mdf]
    ELSE IF r.matches # << >>
    THEN [msg |-> "success", called |-> TRUE, reads |-> r.reads,
          matches |-> r.matches,
          master |-> Some(build_master_dataframe(r.matches))]
    ELSE [msg |-> "warning_no_matches", called |-> TRUE, reads |-> r.reads,
          matches |-> << >>, master |-> mdf]

\* Mutation of ProcessButton: the competitor files are checked first.
ProcessButtonCompFirst(mf, cfs, mdf, min_score, W) ==
    IF cfs = << >>
    THEN [msg |-> "error_no_comp_files", called |-> FALSE, reads |-> 0,
          matches |-> << >>, master |-> mdf]
    ELSE IF mf = None
    THEN [msg |-> "error_no_my_file", called |-> FALSE, reads |-> 0,
          matches |-> << >>, master |-> mdf]
    ELSE AfterRun(run_full_analysis(mf[1], cfs, min_score, W), mdf)

\* The body of  if st.button(...):  with the session's files mf (None or
\* Some file) and cfs, the stored table mdf, the slider's min_score and the
\* scorer W.  Gives the message shown, what the engine did, and the table
\* stored afterwards.
ProcessButton(mf, cfs, mdf, min_score, W) ==
    IF mf = None
    THEN [msg |-> "error_no_my_file", called |-> FALSE, reads |-> 0,
          matches |-> << >>, master |-> mdf]
    ELSE IF cfs = << >>
    THEN [msg |-> "error_no_comp_files", called |-> FALSE, reads |-> 0,
          matches |-> << >>, master |-> mdf]
    ELSE AfterRun(run_full_analysis(mf[1], cfs, min_score, W), mdf)

\* One run of the script goes top to bottom.  First the upload tab: it
\* copies the widgets' files into the session (an empty widget leaves the
\* session's copy alone).
UploadTab(new_up_my, new_up_comp) ==
    /\ up_my' = new_up_my
    /\ up_comp' = new_up_comp
    /\ my_file' = IF new_up_my # None THEN new_up_my ELSE my_file
    /\ comp_files' = IF new_up_comp # << >> THEN new_up_comp ELSE comp_files

\* the session after the button handler ended with outcome out
ButtonDone(out) ==
    /\ master_df' = out.master
    /\ run' = [pressed |-> TRUE, msg |-> out.msg, called |-> out.called,
               reads |-> out.reads, matches |-> out.matches]

\* Then the process tab, the button pressed ...
ProcessTabPressed(min_score, W) ==
    ButtonDone(ProcessButton(my_file', comp_files', master_df, min_score, W))

\* ... or not.
ProcessTabIdle ==
    /\ master_df' = master_df
    /\ run' = NoRun

\* tab_results: the table is shown when one is stored and it has rows
ResultsShown == master_df # << >> /\ master_df[1] # << >>

-----------------------------------------------------------------------------
(* The scorer                                                              *)

\* The scorer, fuzz.WRatio: some function of the two fingerprints that gives
\* 100 to equal non-empty strings, 0 to two empty ones, and the same score to
\* a pair in either order.  Scores are in tenths: 74.0, 75.0, 100.0.
ScoreVals == { 740, 750, 1000 }
Fps == UNION { { p.fp : p \in Range(_load_products(f.rows)) } : f \in Files }
FpPairs == { {a, b} : a \in Fps, b \in Fps } \ { {a} : a \in Fps }
WRatioFns ==
    { [ q \in Fps, c \in Fps |->
          IF q = c THEN (IF q = << >> THEN 0 ELSE 1000) ELSE g[{q, c}] ]
      : g \in [FpPairs -> ScoreVals] }
\* For whole sessions: the scorers that give all unequal pairs one score.
SessionScorers ==
    { w \in WRatioFns : \A a, b \in FpPairs : \A x, y \in a : \A u, v \in b :
          (x # y /\ u # v) => w[x, y] = w[u, v] }

-----------------------------------------------------------------------------
(* Specification SpecEngine: one method call of PerfumeMatchingEngine      *)

NameArgs  == { [kind |-> "name", name |-> n] : n \in Names }
TableArgs == { [kind |-> "table", df |-> t] : t \in Tables }
RunArgs ==
    { [kind |-> "run", mf |-> f, cfs |-> cs, min_score |-> ms, W |-> w]
      : f \in MerchantFiles, cs \in SeqUpTo(CompetitorFiles, MaxCompFiles),
        ms \in MinScores, w \in WRatioFns }

NoRet == [op |-> "none"]

SessionInit ==
    /\ up_my = None
    /\ up_comp = << >>
    /\ my_file = None
    /\ comp_files = << >>
    /\ master_df = None
    /\ run = NoRun

EngineInit ==
    /\ arg \in NameArgs \cup TableArgs \cup RunArgs
    /\ ret = NoRet
    /\ SessionInit

CallClassify ==
    /\ arg.kind = "name" /\ ret = NoRet
    /\ ret' = [op |-> "_classify", val |-> _classify(arg.name)]
    /\ UNCHANGED <<arg, sessionVars>>

CallFingerprint ==
    /\ arg.kind = "name" /\ ret = NoRet
    /\ ret' = [op |-> "_fingerprint", val |-> _fingerprint(arg.name)]
    /\ UNCHANGED <<arg, sessionVars>>

CallLoadProducts ==
    /\ arg.kind = "table" /\ ret = NoRet
    /\ ret' = [op |-> "_load_products", val |-> _load_products(arg.df)]
    /\ UNCHANGED <<arg, sessionVars>>

CallRunFullAnalysis ==
    /\ arg.kind = "run" /\ ret = NoRet
    /\ ret' = [op |-> "run_full_analysis",
               val |-> run_full_analysis(arg.mf, arg.cfs, arg.min_score, arg.W)]
    /\ UNCHANGED <<arg, sessionVars>>

CallBuildMasterDataframe ==
    /\ ret.op = "run_full_analysis" /\ ~ret.val.raised
    /\ ret' = [op |-> "build_master_dataframe", matches |-> ret.val.matches,
               val |-> build_master_dataframe(ret.val.matches)]
    /\ UNCHANGED <<arg, sessionVars>>

EngineNext ==
    \/ CallClassify
    \/ CallFingerprint
    \/ CallLoadProducts
    \/ CallRunFullAnalysis
    \/ CallBuildMasterDataframe

SpecEngine == EngineInit /\ [][EngineNext]_vars

-----------------------------------------------------------------------------
(* Specification Spec: a session of the application                        *)

Init ==
    /\ arg = [kind |-> "session"]
    /\ ret = NoRet
    /\ SessionInit

\* the user puts a file into the merchant uploader
UploadMy ==
    \E f \in SessionFiles :
        /\ UploadTab(Some(f), up_comp)
        /\ ProcessTabIdle
        /\ UNCHANGED engineVars

\* the user empties the merchant uploader
ClearMy ==
    /\ up_my # None
    /\ UploadTab(None, up_comp)
    /\ ProcessTabIdle
    /\ UNCHANGED engineVars

\* the user puts one or more files into the competitor uploader
UploadComp ==
    \E fs \in SeqUpTo(SessionFiles, MaxCompFiles) \ { << >> } :
        /\ UploadTab(up_my, fs)
        /\ ProcessTabIdle
        /\ UNCHANGED engineVars

\* the user empties the competitor uploader
ClearComp ==
    /\ up_comp # << >>
    /\ UploadTab(up_my, << >>)
    /\ ProcessTabIdle
    /\ UNCHANGED engineVars

\* the user presses the process button, the slider standing at ms
Process ==
    \E ms \in MinScores, w \in SessionScorers :
        /\ UploadTab(up_my, up_comp)
        /\ ProcessTabPressed(ms, w)
        /\ UNCHANGED engineVars

Next ==
    \/ UploadMy
    \/ ClearMy
    \/ UploadComp
    \/ ClearComp
    \/ Process

Spec == Init /\ [][Next]_vars

-----------------------------------------------------------------------------
(* Properties                                                              *)

\* the lowercased name holds a word of the vocabulary as a substring
HasToken(name, vocabulary) ==
    \E n \in 1..Len(vocabulary) : \E i \in 1..Len(name) :
        /\ i + Len(vocabulary[n]) - 1 <= Len(name)
        /\ \A j \in 1..Len(vocabulary[n]) : LowerChar(name[i + j - 1]) = vocabulary[n][j]

Classified == ret.op = "_classify"
Fingerprinted == ret.op = "_fingerprint"
Loaded == ret.op = "_load_products"
Analysed == ret.op = "run_full_analysis" /\ ~ret.val.raised
Built == ret.op = "build_master_dataframe"

\* the rows a match was made from
MyRowOf(m) == arg.mf.rows[m.mi]
CompRowOf(m) == arg.cfs[m.ci].rows[m.bi]

\* C7: for a name that is not rejected, _classify gives one of the five
\* types, chosen by the first vocabulary, in the order Set, Hair Mist, Body
\* Mist, Tester, of which the lowercased name holds a word; Retail when it
\* holds none.
C7_TypePriority ==
    (Classified /\ ~ret.val.rejected) =>
        LET t == ret.val.ptype
            n == arg.name
        IN  /\ t \in { "Set", "Hair Mist", "Body Mist", "Tester", "Retail" }
            /\ (t = "Set") <=> HasToken(n, SET)
            /\ (t = "Hair Mist") <=> (~HasToken(n, SET) /\ HasToken(n, HAIR_MIST))
            /\ (t = "Body Mist") <=>
                   (~HasToken(n, SET) /\ ~HasToken(n, HAIR_MIST) /\ HasToken(n, BODY_MIST))
            /\ (t = "Tester") <=>
                   (/\ ~HasToken(n, SET) /\ ~HasToken(n, HAIR_MIST)
                    /\ ~HasToken(n, BODY_MIST) /\ HasToken(n, TESTER))
            /\ (t = "Retail") <=>
                   (/\ ~HasToken(n, SET) /\ ~HasToken(n, HAIR_MIST)
                    /\ ~HasToken(n, BODY_MIST) /\ ~HasToken(n, TESTER))

\* a name with a Set word and a Tester word was classified, as Set
C7_Witness ==
    /\ Classified /\ ~ret.val.rejected
    /\ HasToken(arg.name, SET) /\ HasToken(arg.name, TESTER)
    /\ ret.val.ptype = "Set"

\* C3: a row whose lowercased name holds a rejection word is classified
\* rejected whatever else the name holds, gives no product in
\* _load_products, and is neither side of any match.
C3_RejectionVeto ==
    /\ (Classified /\ HasToken(arg.name, REJECTED)) => ret.val.rejected
    /\ Loaded =>
           \A i \in 1..Len(arg.df) :
               HasToken(arg.df[i].name, REJECTED) =>
                   \A k \in 1..Len(ret.val) : ret.val[k].row # i
    /\ Analysed =>
           \A k \in 1..Len(ret.val.matches) :
               LET m == ret.val.matches[k]
               IN  /\ ~HasToken(m.my_name, REJECTED)
                   /\ ~HasToken(m.comp_product, REJECTED)
                   /\ ~HasToken(MyRowOf(m).name, REJECTED)
                   /\ ~HasToken(CompRowOf(m).name, REJECTED)

\* a table with a rejected row that also names a set, a tester and a size
\* was loaded, and another row of it gave a product
C3_Witness ==
    /\ Loaded
    /\ ret.val # << >>
    /\ \E i \in 1..Len(arg.df) :
           /\ HasToken(arg.df[i].name, REJECTED)
           /\ HasToken(arg.df[i].name, SET)
           /\ HasToken(arg.df[i].name, TESTER)
           /\ arg.df[i].price.k = "num"

\* C8 (as claimed): _fingerprint of a fingerprint is that fingerprint.
C8_FingerprintIdempotent ==
    Fingerprinted => _fingerprint(ret.val) = ret.val

\* C9 (as claimed): every product of _load_products has a price that is a
\* number and not negative, a row that is not rejected and whose price cell
\* is no such number gives no product, and the products are in row order.
C9_PriceValid ==
    Loaded =>
        /\ \A k \in 1..Len(ret.val) :
               /\ ~ret.val[k].price.nan
               /\ ret.val[k].price.v >= 0
        /\ \A i \in 1..Len(arg.df) :
               ~(arg.df[i].price.k = "num" /\ arg.df[i].price.v >= 0) =>
                   \A k \in 1..Len(ret.val) : ret.val[k].row # i
        /\ \A j, k \in 1..Len(ret.val) : j < k => ret.val[j].row < ret.val[k].row

\* the matches of the analysis, also once the table is built from them
MatchesOf == IF Built THEN ret.matches ELSE ret.val.matches

\* C1: every match pairs a merchant row and a competitor row of the same
\* type and the same size, and that size is not 0; so a row of size 0 is
\* neither side of any match.
C1_StrictFilter ==
    Analysed =>
        \A k \in 1..Len(ret.val.matches) :
            LET m == ret.val.matches[k]
                a == NameInfo[MyRowOf(m).name].c
                b == NameInfo[CompRowOf(m).name].c
            IN  /\ m.my_name = MyRowOf(m).name
                /\ m.comp_product = CompRowOf(m).name
                /\ a.ptype = b.ptype /\ m.ptype = a.ptype
                /\ a.size = b.size /\ m.size_ml = a.size
                /\ a.size # 0 /\ b.size # 0

\* a match was made although the competitor file also has a row of another
\* type and a row of size 0, and the merchant table has a row of size 0
C1_Witness ==
    /\ Analysed
    /\ \E k \in 1..Len(ret.val.matches) :
           LET m  == ret.val.matches[k]
               cf == arg.cfs[m.ci]
           IN  /\ \E j \in 1..Len(cf.rows) :
                      /\ ~NameInfo[cf.rows[j].name].c.rejected
                      /\ NameInfo[cf.rows[j].name].c.ptype # m.ptype
               /\ \E cf2 \in Range(arg.cfs) : \E j \in 1..Len(cf2.rows) :
                      /\ ~NameInfo[cf2.rows[j].name].c.rejected
                      /\ NameInfo[cf2.rows[j].name].c.size = 0
               /\ \E j \in 1..Len(arg.mf.rows) :
                      /\ ~NameInfo[arg.mf.rows[j].name].c.rejected
                      /\ NameInfo[arg.mf.rows[j].name].c.size = 0

CandidateSet(p, cps) == { c \in Range(cps) : c.type = p.type /\ c.size = p.size }
TopScore(p, cs) == CHOOSE t \in { arg.W[p.fp, c.fp] : c \in cs } :
                       \A c \in cs : arg.W[p.fp, c.fp] <= t
Emitted(p, ci) == { m \in Range(ret.val.matches) : m.mi = p.row /\ m.ci = ci }

\* C5: for a merchant product (of a known size) with candidates in a
\* competitor file, a match is emitted for the pair exactly when the highest
\* candidate score is at least min_score, and it is the match with the
\* first candidate of that score.
C5_Threshold ==
    Analysed =>
        \A ci \in 1..Len(arg.cfs) : \A p \in Range(_load_products(arg.mf.rows)) :
            LET cs == CandidateSet(p, _load_products(arg.cfs[ci].rows))
            IN  (p.size # 0 /\ cs # {}) =>
                    LET top   == TopScore(p, cs)
                        first == CHOOSE c \in cs :
                                     /\ arg.W[p.fp, c.fp] = top
                                     /\ \A d \in cs : arg.W[p.fp, d.fp] = top => c.row <= d.row
                    IN  /\ (Emitted(p, ci) # {}) <=> (top >= 10 * arg.min_score)
                        /\ Cardinality(Emitted(p, ci)) <= 1
                        /\ \A m \in Emitted(p, ci) :
                               /\ m.bi = first.row
                               /\ m.comp_product = first.name
                               /\ m.comp_price = first.price

\* a match was emitted whose best candidate scores exactly min_score, and
\* that candidate is not the first row of its file
C5_Witness ==
    /\ Analysed
    /\ \E ci \in 1..Len(arg.cfs) : \E p \in Range(_load_products(arg.mf.rows)) :
           LET cs == CandidateSet(p, _load_products(arg.cfs[ci].rows))
           IN  /\ p.size # 0 /\ cs # {}
               /\ TopScore(p, cs) = 10 * arg.min_score
               /\ \E m \in Emitted(p, ci) : m.bi > 1

\* a float equals another (NaN equals nothing)
FloatEq(a, b) == ~a.nan /\ ~b.nan /\ a.v = b.v

\* C6 (as claimed): in every match the delta is the competitor price minus
\* the merchant price, and the label is Losing exactly when the delta is
\* below 0, Leading exactly when it is above 0, Tied exactly when it is 0.
C6_Decision ==
    Analysed =>
        \A k \in 1..Len(ret.val.matches) :
            LET m == ret.val.matches[k]
            IN  /\ FloatEq(m.diff, FloatSub(m.comp_price, m.my_price))
                /\ (m.decision = "Losing") <=> FloatLt0(m.diff)
                /\ (m.decision = "Leading") <=> FloatGt0(m.diff)
                /\ (m.decision = "Tied") <=> FloatEq(m.diff, Num(0))

\* C4: a press of the process button with no merchant file, or with no
\* competitor file, shows its own error (not the zero-matches warning) and
\* the engine is not called: no file is read and no match is made; the
\* merchant file is checked first.
C4_HardFailures ==
    run.pressed =>
        /\ my_file = None =>
               /\ run.msg = "error_no_my_file"
               /\ ~run.called /\ run.reads = 0 /\ run.matches = << >>
        /\ (my_file # None /\ comp_files = << >>) =>
               /\ run.msg = "error_no_comp_files"
               /\ ~run.called /\ run.reads = 0 /\ run.matches = << >>
        /\ (my_file # None /\ comp_files # << >>) =>
               /\ run.msg \in { "success", "warning_no_matches", "error_exception" }
               /\ run.called /\ run.reads >= 1

\* the button was pressed with a merchant file and no competitor file
C4_Witness ==
    /\ run.pressed
    /\ my_file # None /\ comp_files = << >>
    /\ run.msg = "error_no_comp_files"

\* C10: the stored table changes only in a run of the script that pressed
\* the button and made at least one match, and then it is the table of
\* those matches; every other run (an upload, zero matches, an exception, a
\* missing file) leaves it as it was.
C10_StoredTableFrame ==
    [][ master_df' # master_df =>
            /\ run'.pressed /\ run'.msg = "success" /\ run'.matches # << >>
            /\ master_df' # None
            /\ Len(master_df'[1]) = Len(run'.matches)
            /\ \A i \in 1..Len(run'.matches) :
                   /\ master_df'[1][i].my_name = run'.matches[i].my_name
                   /\ master_df'[1][i].competitor = run'.matches[i].competitor
                   /\ master_df'[1][i].comp_product = run'.matches[i].comp_product
                   /\ master_df'[1][i].decision = run'.matches[i].decision ]_vars

\* a run that found no match ended with the table of an earlier run still
\* stored and shown
C10_Witness ==
    /\ run.pressed /\ run.msg = "warning_no_matches"
    /\ master_df # None /\ ResultsShown

=============================================================================
